---- MODULE Spec2Model ----
(***************************************************************************)
(* Model of the Snowflake MCP server (working_sse_server.js): the tool     *)
(* registry built by the constructor, the JSON-RPC dispatcher              *)
(* handleMCPRequest, and the HTTP request listener of runHTTP with its     *)
(* POST, health, OPTIONS, 404 and SSE routes.  The dispatcher and the POST *)
(* route of the other three-tool HTTP variants are the same code; their    *)
(* SSE handshake, heartbeat, cancellation and health routes differ and are *)
(* modelled per variant.                                                   *)
(*                                                                         *)
(* JavaScript values are tagged records: [t |-> "undefined"],              *)
(* [t |-> "null"], [t |-> "string", v |-> s], [t |-> "number", v |-> s],   *)
(* [t |-> "object", m |-> f] with f a function from member names to        *)
(* values.  A request body is a sequence of lexical tokens that arrives    *)
(* in chunks; JSONparse turns the buffered tokens into a value or fails.   *)
(***************************************************************************)
EXTENDS Integers, Sequences, FiniteSets, TLC

\* ------------------------------------------------------------------ bounds
MaxConns == 2    \* connections the listener serves at the same time
ChunkLen == 3    \* tokens one 'data' event carries, unless it carries all the rest
MaxBeats == 1    \* heartbeat frames observed on one SSE stream

Conns == 1 .. MaxConns

\* ------------------------------------------------------- JavaScript values
Undefined == [t |-> "undefined"]
JNull == [t |-> "null"]
JStr(s) == [t |-> "string", v |-> s]
JNum(s) == [t |-> "number", v |-> s]
JObj(m) == [t |-> "object", m |-> m]
EmptyObj == JObj([k \in {} |-> Undefined])

\* x.k for a value x that is neither undefined nor null
Get(x, k) ==
  IF x.t = "object" /\ k \in DOMAIN x.m THEN x.m[k] ELSE Undefined

\* reading a property of (or destructuring) undefined or null throws TypeError
Nullish(x) == x.t \in {"undefined", "null"}

Truthy(x) ==
  /\ ~Nullish(x)
  /\ ~(x.t = "string" /\ x.v = "")
  /\ ~(x.t = "number" /\ x.v = "0")

\* a || b
OrElse(a, b) == IF Truthy(a) THEN a ELSE b

\* `${x}` in a template literal
ToStr(x) ==
  CASE x.t = "undefined" -> "undefined"
    [] x.t = "null" -> "null"
    [] x.t = "object" -> "[object Object]"
    [] OTHER -> x.v

\* ------------------------------------------------------------ the registry
Registry ==
  << [name |-> "cortex_search",
      description |-> "Search through employer benefit guide text content",
      inputSchema |->
        [type |-> "object",
         properties |->
           [query |-> [type |-> "string",
                       description |-> "Search query for benefit guides"]],
         required |-> <<"query">>]],
     [name |-> "benefits_analysis",
      description |-> "Analyze benefits data and trends across companies",
      inputSchema |->
        [type |-> "object",
         properties |->
           [query |-> [type |-> "string",
                       description |-> "Analysis request"]],
         required |-> <<"query">>]],
     [name |-> "company_search",
      description |-> "Search for companies by industry or size",
      inputSchema |->
        [type |-> "object",
         properties |->
           [industry |-> [type |-> "string",
                          description |-> "Industry to search"],
            size |-> [type |-> "string",
                      description |-> "Company size filter"]],
         required |-> <<"industry">>]] >>

\* ------------------------------------------------------------ the variants
\* The repository holds the HTTP server in four runnable forms:
\*   "working"    working_sse_server.js
\*   "enhanced"   unnamed/part_001
\*   "compliant"  unnamed/part_000, third file (lines 362-641)
\*   "hybrid"     unnamed/part_000, second file (lines 182-361), started with
\*                --http: SSE and health routes only, no POST endpoint
\* The first file of unnamed/part_000 (lines 1-181) declares
\* `const arguments` inside a class body, which is strict code, so it does not
\* load; its SSE and health routes are the hybrid's, line for line.
Variants == { "working", "enhanced", "compliant", "hybrid" }

\* let isActive = true;
HasFlag(v) == v \in { "enhanced", "compliant" }

\* req.on('error', ...) is registered
HasErrorListener(v) == v # "hybrid"

\* the route  pathname === '/' && req.method === 'POST'  exists
HasPostRoute(v) == v # "hybrid"

\* the compliant constructor registers company_search without the size property
CompliantRegistry ==
  [Registry EXCEPT ![3].inputSchema.properties =
     [industry |-> [type |-> "string", description |-> "Industry to search"]]]

\* the one-tool list the hybrid writes out in its handlers
HybridTools == << Registry[1] >>

\* mutant of Catalog: a tool is registered a second time
CatalogRepeated(v) == Append(Registry, Registry[1])

\* the tools a variant is constructed with
Catalog(v) ==
  CASE v = "compliant" -> CompliantRegistry
    [] v = "hybrid" -> HybridTools
    [] OTHER -> Registry

\* ---------------------------------------------------------- the dispatcher
\* What an async function call produces: a returned value or a rejection.
Returned(resp) == [thrown |-> FALSE, response |-> resp]
Thrown(e) == [thrown |-> TRUE, error |-> e]

IsStr(x, s) == x.t = "string" /\ x.v = s

\* mutant of NewResponse: the response is not given the request's id
NewResponseNullId(id) == [jsonrpc |-> "2.0", id |-> JNull]

\* const response = { jsonrpc: "2.0", id };
NewResponse(id) == [jsonrpc |-> "2.0", id |-> id]

WithResult(response, r) == response @@ [result |-> r]
\* mutant of WithError: the error is added next to a null result
WithErrorAndResult(response, code, message) ==
  response @@ [error |-> [code |-> code, message |-> message], result |-> JNull]

WithError(response, code, message) ==
  response @@ [error |-> [code |-> code, message |-> message]]

\* mutant of InitializeResult: an earlier protocol revision is announced
InitializeResultDraft ==
  [protocolVersion |-> "2024-10-07",
   capabilities |-> [tools |-> EmptyObj],
   serverInfo |-> [name |-> "snowflake-mcp-server", version |-> "1.0.0"]]

\* case "initialize"
InitializeResult ==
  [protocolVersion |-> "2024-11-05",
   capabilities |-> [tools |-> EmptyObj],
   serverInfo |-> [name |-> "snowflake-mcp-server", version |-> "1.0.0"]]

\* mutant of ToolsListResult: the catalog is listed last-registered first
ToolsListReversed(this_tools) ==
  [tools |-> [i \in 1 .. Len(this_tools) |-> this_tools[Len(this_tools) + 1 - i]]]

\* case "tools/list"
ToolsListResult(this_tools) == [tools |-> this_tools]

\* the single text block a tool branch answers with
TextContent(pieces) == [content |-> << [type |-> "text", text |-> pieces] >>]

\* mutant of CortexSearchText: the text does not quote the query
CortexSearchTextFixed(query) ==
  << "Search Results:\n\nFound 12 companies matching your criteria [...] Based on BENBETTER_GUIDES database." >>

CortexSearchText(query) ==
  << "Search Results for \"", ToStr(query),
     "\":\n\nFound 12 companies matching your criteria [...] Based on BENBETTER_GUIDES database." >>

BenefitsAnalysisText(query) ==
  << "Benefits Analysis: \"", ToStr(query),
     "\"\n\nKey findings [...] Data from 5,502 benefit guides." >>

CompanySearchText(industry) ==
  << "Company Search: ", ToStr(industry),
     "\n\nFound companies [...] All offer competitive benefit packages." >>

\* mutant of CallTool: no final else, an unknown name gets an empty result
\* mutant of CallTool: the chain has no branch for company_search
CallToolShort(response, toolName, toolArgs) ==
  IF IsStr(toolName, "cortex_search")
    THEN WithResult(response,
           TextContent(CortexSearchText(OrElse(Get(toolArgs, "query"), JStr("")))))
  ELSE IF IsStr(toolName, "benefits_analysis")
    THEN WithResult(response,
           TextContent(BenefitsAnalysisText(OrElse(Get(toolArgs, "query"), JStr("")))))
  ELSE WithError(response, -32601, << "Unknown tool: ", ToStr(toolName) >>)

CallToolLenient(response, toolName, toolArgs) ==
  IF IsStr(toolName, "cortex_search")
    THEN WithResult(response,
           TextContent(CortexSearchText(OrElse(Get(toolArgs, "query"), JStr("")))))
  ELSE IF IsStr(toolName, "benefits_analysis")
    THEN WithResult(response,
           TextContent(BenefitsAnalysisText(OrElse(Get(toolArgs, "query"), JStr("")))))
  ELSE IF IsStr(toolName, "company_search")
    THEN WithResult(response,
           TextContent(CompanySearchText(OrElse(Get(toolArgs, "industry"), JStr("")))))
  ELSE WithResult(response, [content |-> << >>])

\* case "tools/call": the if / else-if chain on toolName
CallTool(response, toolName, toolArgs) ==
  IF IsStr(toolName, "cortex_search")
    THEN WithResult(response,
           TextContent(CortexSearchText(OrElse(Get(toolArgs, "query"), JStr("")))))
  ELSE IF IsStr(toolName, "benefits_analysis")
    THEN WithResult(response,
           TextContent(BenefitsAnalysisText(OrElse(Get(toolArgs, "query"), JStr("")))))
  ELSE IF IsStr(toolName, "company_search")
    THEN WithResult(response,
           TextContent(CompanySearchText(OrElse(Get(toolArgs, "industry"), JStr("")))))
  ELSE WithError(response, -32601, << "Unknown tool: ", ToStr(toolName) >>)

\* mutant of UnknownMethod: the default branch answers "invalid request"
UnknownMethodInvalid(response, method) ==
  WithError(response, -32600, << "Invalid Request" >>)

\* default:
UnknownMethod(response, method) ==
  WithError(response, -32601, << "Unknown method: ", ToStr(method) >>)

\* async handleMCPRequest(request)
handleMCPRequest(this_tools, request) ==
  IF Nullish(request)
    THEN Thrown("TypeError")                  \* const { method, params, id } = request
  ELSE
    LET method == Get(request, "method")
        params == Get(request, "params")
        id == Get(request, "id")
        response == NewResponse(id)
    IN  IF IsStr(method, "initialize")
          THEN Returned(WithResult(response, InitializeResult))
        ELSE IF IsStr(method, "tools/list")
          THEN Returned(WithResult(response, ToolsListResult(this_tools)))
        ELSE IF IsStr(method, "tools/call")
          THEN IF Nullish(params)
                 THEN Thrown("TypeError")     \* const toolName = params.name
                 ELSE Returned(CallTool(response,
                                 Get(params, "name"),
                                 OrElse(Get(params, "arguments"), EmptyObj)))
        ELSE Returned(UnknownMethod(response, method))

\* ------------------------------------------ the stdio server's tool handler
\* src/index.js registers its tools/call handler with the SDK's server, which
\* hands it the requests that fit CallToolRequestSchema: params is an object
\* with a string name, and arguments is an object or absent.
StdioSearchText(query) ==
  << "Search Results for \"", ToStr(query),
     "\":\n\nFound 12 companies in the BenBetter.ai database matching your criteria [...] Analysis based on 5,502 employer benefit guides in BENBETTER_GUIDES database." >>

StdioAnalysisText(query, industry, planYear) ==
  << "Benefits Analysis: \"", ToStr(query), "\"\n\n**Scope:** ", ToStr(industry),
     " | Plan Years: ", ToStr(planYear), " [...] **Emerging Trends (",
     ToStr(planYear), "):** [...] companies in ", ToStr(industry),
     " should consider: [...] BENBETTER_GUIDES.BENEFIT_GUIDES_V2 database" >>

\* args.query: reading a member of args, which is undefined when the request
\* has no arguments
ArgsMember(args, k) ==
  IF Nullish(args) THEN Thrown("TypeError") ELSE Returned(Get(args, k))

\* async (request) => { ... } registered for CallToolRequestSchema
CallToolHandler(request) ==
  LET name == Get(Get(request, "params"), "name")
      args == Get(Get(request, "params"), "arguments")
      query == ArgsMember(args, "query")
  IN  IF IsStr(name, "cortex_search")
        THEN IF query.thrown
               THEN query
               ELSE Returned(TextContent(
                      StdioSearchText(OrElse(query.response, JStr("")))))
      ELSE IF IsStr(name, "benefits_analysis")
        THEN IF query.thrown
               THEN query
               ELSE Returned(TextContent(
                      StdioAnalysisText(
                        OrElse(query.response, JStr("")),
                        OrElse(Get(args, "industry"), JStr("all industries")),
                        OrElse(Get(args, "plan_year"), JStr("2024-2025")))))
      ELSE Thrown("Unknown tool")

\* the requests the SDK hands to the handler
FitsCallToolSchema(request) ==
  /\ ~Nullish(request)
  /\ IsStr(Get(request, "method"), "tools/call")
  /\ Get(request, "params").t = "object"
  /\ Get(Get(request, "params"), "name").t = "string"
  /\ Get(Get(request, "params"), "arguments").t \in { "undefined", "object" }

\* ------------------------------------------------- what clients may send
\* an object literal: members whose value is undefined are simply not there
Members(f) == JObj([k \in {j \in DOMAIN f : f[j].t # "undefined"} |-> f[k]])

MethodValues ==
  { Undefined, JStr("initialize"), JStr("tools/list"), JStr("tools/call"),
    JStr("resources/list"), JStr("") }

IdValues == { Undefined, JNull, JStr("a"), JNum("1"), JNum("2") }

VersionValues == { Undefined, JStr("2.0") }

NameValues ==
  { Undefined, JStr("cortex_search"), JStr("benefits_analysis"),
    JStr("company_search"), JStr("nope") }

ArgValues ==
  { Undefined, EmptyObj, JStr("wellness"),
    Members([query |-> JStr("wellness")]),
    Members([query |-> JStr("")]),
    Members([industry |-> JStr("tech")]),
    Members([query |-> JStr("401k"), industry |-> JStr("tech")]) }

ParamValues ==
  { Undefined, JNull, JStr("x") }
    \cup { Members([name |-> n, arguments |-> a]) : n \in NameValues, a \in ArgValues }

\* every decoded request the dispatcher is exercised with
Requests ==
  { JNull, JNum("5") }
    \cup { Members([jsonrpc |-> v, method |-> m, id |-> i, params |-> p]) :
             v \in VersionValues, m \in MethodValues, i \in IdValues,
             p \in ParamValues }

\* ---------------------------------------------------------- JSON on the wire
\* The text of a body is a sequence of lexical tokens; it reaches the server
\* in chunks, so the buffer is a prefix of the text until 'end'.
LBrace == [tok |-> "{"]
RBrace == [tok |-> "}"]
Member(k, v) == [tok |-> "member", k |-> k, v |-> v]
Literal(v) == [tok |-> "literal", v |-> v]

\* the text a client writes for an object with the given members, in order
ObjectText(members) == << LBrace >> \o members \o << RBrace >>

SyntaxError == [ok |-> FALSE]
Parsed(v) == [ok |-> TRUE, value |-> v]

\* JSON.parse(body)
JSONparse(text) ==
  LET n == Len(text)
      inner == 2 .. (n - 1)
  IN  IF n = 1 /\ text[1].tok = "literal"
        THEN Parsed(text[1].v)
      ELSE IF /\ n >= 2
              /\ text[1].tok = "{"
              /\ text[n].tok = "}"
              /\ \A i \in inner : text[i].tok = "member"
        THEN Parsed(JObj([k \in { text[i].k : i \in inner } |->
               \* a repeated member name keeps its last value
               text[CHOOSE i \in inner :
                      /\ text[i].k = k
                      /\ \A j \in inner : text[j].k = k => j <= i].v]))
      ELSE SyntaxError

\* JSON.stringify(response): a member whose value is undefined is left out
JSONstringify(response) ==
  [k \in { j \in DOMAIN response : ~(j = "id" /\ response[j].t = "undefined") }
     |-> response[k]]

\* ------------------------------------------------------ the POST endpoint
ParseErrorBody ==
  [jsonrpc |-> "2.0", id |-> JNull,
   error |-> [code |-> -32700, message |-> << "Parse error" >>]]

NoBody == [none |-> TRUE]

\* what the server has written on a connection: status 0 means nothing yet
Answer(code, content, invoked) ==
  [status |-> code, body |-> content, unhandled |-> FALSE,
   calls |-> invoked, writes |-> 1]

\* mutant of PostEnd: no try/catch around JSON.parse and the dispatcher call
PostEndNoCatch(this_tools, text) ==
  LET parsed == JSONparse(text)
  IN  IF ~parsed.ok
        THEN [status |-> 0, body |-> NoBody, unhandled |-> TRUE,
              calls |-> 0, writes |-> 0]
      ELSE
        LET settled == handleMCPRequest(this_tools, parsed.value)
        IN  IF settled.thrown
              THEN [status |-> 0, body |-> NoBody, unhandled |-> TRUE,
                    calls |-> 1, writes |-> 0]
              ELSE Answer(200, JSONstringify(settled.response), 1)

\* mutant of PostEnd: the 200 head is written before the dispatcher is awaited
PostEndHeadFirst(this_tools, text) ==
  LET parsed == JSONparse(text)
  IN  IF ~parsed.ok
        THEN Answer(400, ParseErrorBody, 0)
      ELSE
        LET settled == handleMCPRequest(this_tools, parsed.value)
        IN  IF settled.thrown
              THEN [Answer(400, ParseErrorBody, 1) EXCEPT !.writes = 2]
              ELSE Answer(200, JSONstringify(settled.response), 1)

\* req.on('end', async () => { try { ... } catch (error) { ... } })
PostEnd(this_tools, text) ==
  LET parsed == JSONparse(text)
  IN  IF ~parsed.ok
        THEN Answer(400, ParseErrorBody, 0)        \* JSON.parse threw
      ELSE
        LET settled == handleMCPRequest(this_tools, parsed.value)
        IN  IF settled.thrown
              THEN Answer(400, ParseErrorBody, 1)  \* the await rejected
              ELSE Answer(200, JSONstringify(settled.response), 1)

\* ------------------------------------------------------- the other routes
HealthBody(this_tools) ==
  [status |-> "healthy", service |-> "Snowflake MCP Server",
   version |-> "1.0.0", tools_count |-> Len(this_tools)]

\* this.tools.map(t => t.name)
ToolNames(this_tools) == [i \in DOMAIN this_tools |-> this_tools[i].name]

EnhancedHealthBody(this_tools) ==
  [status |-> "healthy", service |-> "Snowflake MCP Server",
   version |-> "1.0.0", tools_count |-> Len(this_tools),
   available_tools |-> ToolNames(this_tools),
   endpoints |-> [sse |-> "/sse", jsonrpc |-> "/ (POST)"]]

HybridHealthBody ==
  [status |-> "healthy", service |-> "Snowflake MCP Server", version |-> "1.0.0"]

HealthBodyOf(v, this_tools) ==
  CASE v = "enhanced" -> EnhancedHealthBody(this_tools)
    [] v = "hybrid" -> HybridHealthBody
    [] OTHER -> HealthBody(this_tools)

NotFoundBody == [text |-> "Not Found"]
EmptyBody == [text |-> ""]

\* res.setHeader(...) x 3
CorsHeaders ==
  [allowOrigin |-> "*", allowMethods |-> "GET, POST, OPTIONS",
   allowHeaders |-> "Content-Type, Authorization, Accept"]

\* res.writeHead(200, { ... }) of the SSE route overrides the three headers
SseHeaders ==
  [allowOrigin |-> "*", allowMethods |-> "*", allowHeaders |-> "*",
   contentType |-> "text/event-stream", cacheControl |-> "no-cache",
   connection |-> "keep-alive"]

\* the hybrid allows one request header and its SSE route overrides the origin only
HybridCorsHeaders ==
  [allowOrigin |-> "*", allowMethods |-> "GET, POST, OPTIONS",
   allowHeaders |-> "Content-Type"]

HybridSseHeaders ==
  [allowOrigin |-> "*", allowMethods |-> "GET, POST, OPTIONS",
   allowHeaders |-> "Content-Type",
   contentType |-> "text/event-stream", cacheControl |-> "no-cache",
   connection |-> "keep-alive"]

CorsHeadersOf(v) == IF v = "hybrid" THEN HybridCorsHeaders ELSE CorsHeaders

\* mutant of SseHeadersOf: writeHead drops the headers set before it
SseHeadersAlone(v) ==
  [contentType |-> "text/event-stream", cacheControl |-> "no-cache",
   connection |-> "keep-alive"]

\* what the response carries after res.writeHead(200, { ... }) of the SSE
\* route: the headers it names, over those res.setHeader left
SseHeadersOf(v) == IF v = "hybrid" THEN HybridSseHeaders ELSE SseHeaders

NoHeaders == [none |-> TRUE]

\* One frame of the event stream: res.write(`event: e\ndata: d\n\n`), and
\* res.write(`data: d\n\n`) when no event name is written.
Sse(event, data) == [event |-> event, data |-> data]
Data(data) == Sse("", data)

\* Instants are milliseconds since the connection was accepted.
\* new Date().toISOString() gives a string, Date.now() the number itself.
Iso(ms) == [iso |-> ms]

\* setInterval(..., 30000)
HeartbeatInterval == 30000

\* the three frames written before the timer is created
ServerInfoFrame ==
  [type |-> "server_info", name |-> "snowflake-mcp-server", version |-> "1.0.0",
   capabilities |-> [tools |-> TRUE]]
ToolsListFrame(this_tools) == [type |-> "tools_list", tools |-> this_tools]
ReadyFrame == [type |-> "ready", message |-> "MCP server ready"]
PingFrame(ms) == [type |-> "ping", timestamp |-> Iso(ms)]

Handshake(this_tools) ==
  << Data(ServerInfoFrame), Data(ToolsListFrame(this_tools)), Data(ReadyFrame) >>

\* ---- the enhanced variant's frames
ConnectFrame(ms) == [status |-> "connected", timestamp |-> Iso(ms)]
InitializeFrame == [jsonrpc |-> "2.0", id |-> 1, result |-> InitializeResult]
McpToolsFrame(id, this_tools) ==
  [jsonrpc |-> "2.0", id |-> id, result |-> [tools |-> this_tools]]
\* `tool_${index}` for the indexes a registry of three tools has
ToolEventName(index) ==
  CASE index = 0 -> "tool_0" [] index = 1 -> "tool_1" [] OTHER -> "tool_2"
ToolEvent(this_tools, i) ==
  Sse(ToolEventName(i - 1), [type |-> "tool_available", tool |-> this_tools[i]])
EnhancedReadyFrame(this_tools) ==
  [jsonrpc |-> "2.0", method |-> "notifications/initialized",
   params |-> [status |-> "ready", tools_count |-> Len(this_tools),
               message |-> "MCP server ready with tools"]]
ToolsSummaryFrame(this_tools) ==
  [available_tools |->
     [i \in DOMAIN this_tools |->
        [name |-> this_tools[i].name, description |-> this_tools[i].description]]]
EnhancedPingFrame(ms, this_tools) ==
  [type |-> "ping", timestamp |-> Iso(ms), tools_available |-> Len(this_tools)]

EnhancedHandshake(this_tools) ==
  << Sse("connect", ConnectFrame(0)),
     Sse("initialize", InitializeFrame),
     Sse("tools", McpToolsFrame(2, this_tools)),
     Sse("tools_list", ToolsListFrame(this_tools)) >>
  \o [i \in DOMAIN this_tools |-> ToolEvent(this_tools, i)]
  \o << Sse("ready", EnhancedReadyFrame(this_tools)),
        Sse("tools_summary", ToolsSummaryFrame(this_tools)) >>

\* ---- the compliant variant's frames
CapabilitiesFrame == [jsonrpc |-> "2.0", id |-> 2, result |-> InitializeResult]
CompliantHeartbeatFrame(ms) == [type |-> "heartbeat", timestamp |-> ms]

CompliantHandshake(this_tools) ==
  << Data(McpToolsFrame(1, this_tools)), Data(CapabilitiesFrame) >>

\* ---- the hybrid variant's frames
HybridToolsFrame ==
  [jsonrpc |-> "2.0", method |-> "tools/list", result |-> [tools |-> HybridTools]]
HybridPingFrame == [jsonrpc |-> "2.0", method |-> "ping"]

HybridHandshake == << Data(HybridToolsFrame) >>

\* mutant of HandshakeOf: the stream opens without any list of tools
HandshakeNoCatalog(v, this_tools) == << Data(ServerInfoFrame), Data(ReadyFrame) >>

\* what the SSE route writes before it creates the timer
HandshakeOf(v, this_tools) ==
  CASE v = "enhanced" -> EnhancedHandshake(this_tools)
    [] v = "compliant" -> CompliantHandshake(this_tools)
    [] v = "hybrid" -> HybridHandshake
    [] OTHER -> Handshake(this_tools)

\* mutant of PingOf: the timer pushes a tool result down the stream
PingOfResult(v, this_tools, ms) ==
  Data(WithResult(NewResponse(JNum("1")),
                  TextContent(CortexSearchText(JStr("wellness")))))

\* what the timer callback writes when it fires ms after the connection
PingOf(v, this_tools, ms) ==
  CASE v = "enhanced" -> Sse("ping", EnhancedPingFrame(ms, this_tools))
    [] v = "compliant" -> Data(CompliantHeartbeatFrame(ms))
    [] v = "hybrid" -> Data(HybridPingFrame)
    [] OTHER -> Data(PingFrame(ms))

\* --------------------------------------------------------------- the state
VARIABLES
  tools,       \* this.tools
  req,         \* per connection: the request line the listener was called with
  phase,       \* per connection: "idle", "body" (POST body arriving), "sse", "done"
  body,        \* per connection: the closure variable body of the POST route
  inflight,    \* per connection: the part of the body the client has yet to deliver
  status,      \* per connection: HTTP status written, 0 while none
  reply,       \* per connection: response body written by res.end
  headers,     \* per connection: response headers in force
  frames,      \* per connection: frames written to the event stream
  heartbeat,   \* per connection: the interval created by setInterval is running
  stream,      \* per connection: "none", "open", "errored", "closed", "finished"
  isActive,    \* per connection: the closure variable isActive of the SSE route
  variant,     \* which form of the server is running
  unhandled,   \* a fault escaped every handler
  request,     \* dispatcher harness: the decoded request handed to handleMCPRequest
  dispatched,  \* dispatcher harness: handleMCPRequest has settled
  outcome,     \* dispatcher harness: what handleMCPRequest returned or threw
  handled,     \* dispatcher harness: what the stdio tool handler returned or threw
  calls,       \* per connection: times handleMCPRequest was invoked for the request
  writes       \* per connection: times res.writeHead ran for the request

conn == << req, phase, body, inflight, status, reply, headers, frames, heartbeat,
          stream, isActive >>
harness == << request, dispatched, outcome, handled >>
counts == << calls, writes >>
vars == << tools, variant, conn, unhandled, harness, counts >>

Pending == [pending |-> TRUE]
NoReq == [method |-> "", url |-> ""]

\* the request lines clients use: [method, url]
Line(m, u) == [method |-> m, url |-> u]
RequestLines ==
  { Line("GET", "/"), Line("POST", "/"), Line("OPTIONS", "/"), Line("DELETE", "/"),
    Line("GET", "/sse"), Line("POST", "/sse"), Line("OPTIONS", "/sse"),
    Line("GET", "/tools"), Line("OPTIONS", "/tools") }

\* ------------------------------------------------ bodies clients POST
Version == Member("jsonrpc", JStr("2.0"))

Call(id, method) ==
  ObjectText(<< Version, Member("id", JNum(id)), Member("method", JStr(method)) >>)

CallWith(id, method, params) ==
  ObjectText(<< Version, Member("id", JNum(id)), Member("method", JStr(method)),
                Member("params", params) >>)

PostTexts ==
  { << >>,
    << LBrace, Version >>,
    << Literal(JNull) >>,
    << Literal(JNum("5")) >>,
    ObjectText(<< >>),
    ObjectText(<< Version, Member("id", JNum("1")) >>),
    ObjectText(<< Version, Member("method", JStr("tools/list")) >>),
    ObjectText(<< Member("id", JNum("2")), Member("method", JStr("initialize")) >>),
    Call("1", "initialize"),
    Call("1", "tools/list"),
    Call("2", "tools/list"),
    Call("1", "resources/list"),
    Call("2", "tools/call"),
    CallWith("1", "tools/call", Members([name |-> JStr("nope")])),
    CallWith("1", "tools/call", Members([name |-> JStr("cortex_search")])),
    CallWith("2", "tools/call",
      Members([name |-> JStr("cortex_search"),
               arguments |-> Members([query |-> JStr("wellness")])])),
    CallWith("1", "tools/call",
      Members([name |-> JStr("benefits_analysis"),
               arguments |-> Members([query |-> JStr("401k")])])),
    CallWith("2", "tools/call",
      Members([name |-> JStr("company_search"),
               arguments |-> Members([industry |-> JStr("tech")])])) }

CoreTexts ==
  { << >>,
    Call("1", "tools/list"),
    Call("2", "tools/call"),
    CallWith("1", "tools/call",
      Members([name |-> JStr("cortex_search"),
               arguments |-> Members([query |-> JStr("wellness")])])) }

\* ------------------------------------------------------------ construction
Init ==
  /\ tools = Registry
  /\ req = [c \in Conns |-> NoReq]
  /\ phase = [c \in Conns |-> "idle"]
  /\ body = [c \in Conns |-> << >>]
  /\ inflight = [c \in Conns |-> << >>]
  /\ status = [c \in Conns |-> 0]
  /\ reply = [c \in Conns |-> NoBody]
  /\ headers = [c \in Conns |-> NoHeaders]
  /\ frames = [c \in Conns |-> << >>]
  /\ heartbeat = [c \in Conns |-> FALSE]
  /\ stream = [c \in Conns |-> "none"]
  /\ unhandled = FALSE
  /\ request = Undefined
  /\ dispatched = FALSE
  /\ outcome = Pending
  /\ isActive = [c \in Conns |-> FALSE]
  /\ variant = "working"
  /\ handled = Pending
  /\ calls = [c \in Conns |-> 0]
  /\ writes = [c \in Conns |-> 0]

\* any of the four forms is started
InitAny ==
  /\ variant \in Variants
  /\ tools = Catalog(variant)
  /\ Init!2 /\ Init!3 /\ Init!4 /\ Init!5 /\ Init!6 /\ Init!7 /\ Init!8
  /\ Init!9 /\ Init!10 /\ Init!11 /\ Init!12 /\ Init!13 /\ Init!14 /\ Init!15
  /\ Init!16 /\ Init!18 /\ Init!19 /\ Init!20

\* ------------------------------------------------- the request listener
\* mutant of IsPreflight: the listener has no branch for OPTIONS
IsPreflightNever(m) == FALSE

\* if (req.method === 'OPTIONS')
IsPreflight(m) == m = "OPTIONS"

\* mutant of IsSseRoute: the route also asks for the GET method
IsSseRouteGetOnly(m, u) == u = "/sse" /\ m = "GET"

\* if (parsedUrl.pathname === '/sse')
IsSseRoute(m, u) == u = "/sse"

\* http.createServer(async (req, res) => { ... }) up to its first suspension
Listener(c, m, u, text) ==
  /\ phase[c] = "idle"
  /\ ~unhandled
  /\ req' = [req EXCEPT ![c] = Line(m, u)]
  /\ IF IsPreflight(m) THEN
       /\ headers' = [headers EXCEPT ![c] = CorsHeadersOf(variant)]
       /\ status' = [status EXCEPT ![c] = 200]
       /\ reply' = [reply EXCEPT ![c] = EmptyBody]
       /\ phase' = [phase EXCEPT ![c] = "done"]
       /\ writes' = [writes EXCEPT ![c] = @ + 1]
       /\ UNCHANGED << body, inflight, frames, heartbeat, stream, isActive >>
     ELSE IF IsSseRoute(m, u) THEN
       /\ headers' = [headers EXCEPT ![c] = SseHeadersOf(variant)]
       /\ status' = [status EXCEPT ![c] = 200]
       /\ frames' = [frames EXCEPT ![c] = HandshakeOf(variant, tools)]
       /\ heartbeat' = [heartbeat EXCEPT ![c] = TRUE]
       /\ isActive' = [isActive EXCEPT ![c] = HasFlag(variant)]
       /\ stream' = [stream EXCEPT ![c] = "open"]
       /\ phase' = [phase EXCEPT ![c] = "sse"]
       /\ writes' = [writes EXCEPT ![c] = @ + 1]
       /\ UNCHANGED << body, inflight, reply >>
     ELSE IF u = "/" /\ m = "POST" /\ HasPostRoute(variant) THEN
       /\ headers' = [headers EXCEPT ![c] = CorsHeadersOf(variant)]
       /\ body' = [body EXCEPT ![c] = << >>]
       /\ inflight' = [inflight EXCEPT ![c] = text]
       /\ phase' = [phase EXCEPT ![c] = "body"]
       /\ UNCHANGED << status, reply, frames, heartbeat, stream, isActive, writes >>
     ELSE IF u = "/" /\ (m = "GET" \/ ~HasPostRoute(variant)) THEN
       /\ headers' = [headers EXCEPT ![c] = CorsHeadersOf(variant)]
       /\ status' = [status EXCEPT ![c] = 200]
       /\ reply' = [reply EXCEPT ![c] = HealthBodyOf(variant, tools)]
       /\ phase' = [phase EXCEPT ![c] = "done"]
       /\ writes' = [writes EXCEPT ![c] = @ + 1]
       /\ UNCHANGED << body, inflight, frames, heartbeat, stream, isActive >>
     ELSE
       /\ headers' = [headers EXCEPT ![c] = CorsHeadersOf(variant)]
       /\ status' = [status EXCEPT ![c] = 404]
       /\ reply' = [reply EXCEPT ![c] = NotFoundBody]
       /\ phase' = [phase EXCEPT ![c] = "done"]
       /\ writes' = [writes EXCEPT ![c] = @ + 1]
       /\ UNCHANGED << body, inflight, frames, heartbeat, stream, isActive >>
  /\ UNCHANGED << tools, variant, unhandled, harness, calls >>

\* mutant of Buffer: one body shared by every request in flight
BufferShared(bodies, c, chunk) == [d \in DOMAIN bodies |-> bodies[d] \o chunk]

\* let body = ''  is declared inside the POST branch: one per request
Buffer(bodies, c, chunk) == [bodies EXCEPT ![c] = @ \o chunk]

\* req.on('data', chunk => { body += chunk.toString(); })
OnData(c) ==
  /\ phase[c] = "body"
  /\ ~unhandled
  /\ inflight[c] # << >>
  /\ \E n \in { ChunkLen, Len(inflight[c]) } :
       /\ n >= 1
       /\ n <= Len(inflight[c])
       /\ body' = Buffer(body, c, SubSeq(inflight[c], 1, n))
       /\ inflight' = [inflight EXCEPT ![c] = SubSeq(@, n + 1, Len(@))]
  /\ UNCHANGED << tools, variant, req, phase, status, reply, headers, frames,
                  heartbeat, stream, isActive, unhandled, harness,
                  counts >>

\* req.on('end', ...): the whole body has arrived
OnEnd(c) ==
  /\ phase[c] = "body"
  /\ ~unhandled
  /\ inflight[c] = << >>
  /\ LET r == PostEnd(tools, body[c])
     IN  /\ status' = [status EXCEPT ![c] = r.status]
         /\ reply' = [reply EXCEPT ![c] = r.body]
         /\ unhandled' = (unhandled \/ r.unhandled)
         /\ calls' = [calls EXCEPT ![c] = @ + r.calls]
         /\ writes' = [writes EXCEPT ![c] = @ + r.writes]
  /\ phase' = [phase EXCEPT ![c] = "done"]
  /\ UNCHANGED << tools, variant, req, body, inflight, headers, frames, heartbeat,
                  stream, isActive, harness >>

\* heartbeat frames written so far on connection c
Beats(c) == Len(frames[c]) - Len(HandshakeOf(variant, tools))

\* the callback's  if (isActive)  where the variant has the flag
TimerWrites(v, active) == HasFlag(v) => active

\* the setInterval callback: it runs once for every interval that elapses
\* while the timer exists, the k-th time k intervals after the connection
Heartbeat(c) ==
  /\ heartbeat[c]
  /\ ~unhandled
  /\ Beats(c) < MaxBeats
  /\ frames' = [frames EXCEPT ![c] =
       IF TimerWrites(variant, isActive[c])
         THEN Append(@, PingOf(variant, tools, (Beats(c) + 1) * HeartbeatInterval))
         ELSE @]
  /\ UNCHANGED << tools, variant, req, phase, body, inflight, status, reply,
                  headers, heartbeat, stream, isActive, unhandled, harness,
                  counts >>

\* mutant of Cancel: the listener leaves the timer running
CancelNothing(timer) == timer

\* clearInterval(heartbeat): what becomes of a timer, running or not
Cancel(timer) == FALSE

\* mutant of ClearTimer: one timer shared by every session
ClearAllTimers(timers, c) == [d \in DOMAIN timers |-> Cancel(timers[d])]

\* the listener's closure holds the  const heartbeat  of its own connection
ClearTimer(timers, c) == [timers EXCEPT ![c] = Cancel(@)]

\* req.on('close', ...): every variant registers it
OnClose(c) ==
  /\ phase[c] = "sse"
  /\ ~unhandled
  /\ stream[c] \in { "open", "errored" }
  /\ isActive' = [isActive EXCEPT ![c] = FALSE]
  /\ heartbeat' = ClearTimer(heartbeat, c)
  /\ stream' = [stream EXCEPT ![c] = IF @ = "open" THEN "closed" ELSE "finished"]
  /\ UNCHANGED << tools, variant, req, phase, body, inflight, status, reply,
                  headers, frames, unhandled, harness,
                  counts >>

\* the request stream fails; req.on('error', ...) runs where it is registered
OnError(c) ==
  /\ phase[c] = "sse"
  /\ ~unhandled
  /\ stream[c] \in { "open", "closed" }
  /\ IF HasErrorListener(variant)
       THEN /\ isActive' = [isActive EXCEPT ![c] = FALSE]
            /\ heartbeat' = ClearTimer(heartbeat, c)
       ELSE UNCHANGED << isActive, heartbeat >>
  /\ stream' = [stream EXCEPT ![c] = IF @ = "open" THEN "errored" ELSE "finished"]
  /\ UNCHANGED << tools, variant, req, phase, body, inflight, status, reply,
                  headers, frames, unhandled, harness,
                  counts >>

\* the connection is over; its slot serves the next incoming request
Recycle(c) ==
  /\ \/ phase[c] = "done"
     \/ phase[c] = "sse" /\ stream[c] \in { "closed", "finished" }
  /\ req' = [req EXCEPT ![c] = NoReq]
  /\ phase' = [phase EXCEPT ![c] = "idle"]
  /\ body' = [body EXCEPT ![c] = << >>]
  /\ inflight' = [inflight EXCEPT ![c] = << >>]
  /\ status' = [status EXCEPT ![c] = 0]
  /\ reply' = [reply EXCEPT ![c] = NoBody]
  /\ headers' = [headers EXCEPT ![c] = NoHeaders]
  /\ frames' = [frames EXCEPT ![c] = << >>]
  /\ heartbeat' = [heartbeat EXCEPT ![c] = FALSE]
  /\ isActive' = [isActive EXCEPT ![c] = FALSE]
  /\ stream' = [stream EXCEPT ![c] = "none"]
  /\ calls' = [calls EXCEPT ![c] = 0]
  /\ writes' = [writes EXCEPT ![c] = 0]
  /\ UNCHANGED << tools, variant, unhandled, harness >>

\* any request line, bodies from CoreTexts
Accept(c) ==
  \E l \in RequestLines, text \in CoreTexts : Listener(c, l.method, l.url, text)

Next ==
  \E c \in Conns :
    \/ Accept(c)
    \/ OnData(c)
    \/ OnEnd(c)
    \/ Heartbeat(c)
    \/ OnClose(c)
    \/ OnError(c)
    \/ Recycle(c)

Spec == Init /\ [][Next]_vars

\* ------------------------------------ the whole listener, in every form
\* bodies that make the POST endpoint fail or refuse, and two it serves
TroubleTexts ==
  { << >>,
    Call("1", "resources/list"),
    Call("2", "tools/call"),
    CallWith("1", "tools/call", Members([name |-> JStr("nope")])),
    CallWith("1", "tools/call", Members([name |-> JStr("cortex_search")])) }

\* only the POST route reads the body a client sends
BodiesFor(l) == IF l = Line("POST", "/") THEN TroubleTexts ELSE { << >> }

AcceptAny(c) ==
  \E l \in RequestLines :
    \E text \in BodiesFor(l) : Listener(c, l.method, l.url, text)

NextAll ==
  \E c \in Conns :
    \/ AcceptAny(c)
    \/ OnData(c)
    \/ OnEnd(c)
    \/ Heartbeat(c)
    \/ OnClose(c)
    \/ OnError(c)
    \/ Recycle(c)

SpecAll == InitAny /\ [][NextAll]_vars

\* ------------------------------------- the POST endpoint under many bodies
AcceptPost(c) == \E text \in PostTexts : Listener(c, "POST", "/", text)

NextPost ==
  \E c \in Conns :
    \/ AcceptPost(c)
    \/ OnData(c)
    \/ OnEnd(c)
    \/ Recycle(c)

SpecPost == Init /\ [][NextPost]_vars

\* ------------------------------------------- event streams, in every form
AcceptSse(c) == \E m \in { "GET", "POST" } : Listener(c, m, "/sse", << >>)

NextSse ==
  \E c \in Conns :
    \/ AcceptSse(c)
    \/ Heartbeat(c)
    \/ OnClose(c)
    \/ OnError(c)
    \/ Recycle(c)

SpecSse == InitAny /\ [][NextSse]_vars

\* ------------------------------------------- the dispatcher on its own
DInit ==
  /\ variant \in { v \in Variants : HasPostRoute(v) }
  /\ tools = Catalog(variant)
  /\ Init!2 /\ Init!3 /\ Init!4 /\ Init!5 /\ Init!6 /\ Init!7
  /\ Init!8 /\ Init!9 /\ Init!10 /\ Init!11 /\ Init!12
  /\ request \in Requests
  /\ dispatched = FALSE
  /\ outcome = Pending
  /\ Init!16 /\ Init!18 /\ Init!19 /\ Init!20

Dispatch ==
  /\ ~dispatched
  /\ outcome' = handleMCPRequest(tools, request)
  /\ handled' = IF FitsCallToolSchema(request)
                  THEN CallToolHandler(request)
                  ELSE Pending
  /\ dispatched' = TRUE
  /\ UNCHANGED << tools, variant, conn, unhandled, request, counts >>

DNext == Dispatch

SpecDispatch == DInit /\ [][DNext]_vars

\* ======================================================== the properties
\* ---- vocabulary
IsToolsCall(r) == ~Nullish(r) /\ IsStr(Get(r, "method"), "tools/call")
HasParams(r) == ~Nullish(r) /\ ~Nullish(Get(r, "params"))
ToolNameOf(r) == Get(Get(r, "params"), "name")
ToolArgsOf(r) == OrElse(Get(Get(r, "params"), "arguments"), EmptyObj)

Registered(n) ==
  n.t = "string" /\ \E i \in DOMAIN tools : tools[i].name = n.v

\* the names a registered tool's inputSchema.required lists
RequiredOf(n) ==
  UNION { { tools[i].inputSchema.required[j] :
              j \in DOMAIN tools[i].inputSchema.required } :
          i \in { i \in DOMAIN tools : tools[i].name = n.v } }

HasError(resp, code) ==
  "error" \in DOMAIN resp /\ resp.error.code = code

Mentions(message, word) == \E i \in DOMAIN message : message[i] = word

\* C1: a tools/call whose params.name is not a registered tool is answered with
\* error -32601, the message naming that tool, and with no result key.
C1_UnknownToolMethodNotFound ==
  (dispatched /\ IsToolsCall(request) /\ HasParams(request)
     /\ ~Registered(ToolNameOf(request)))
  => /\ ~outcome.thrown
     /\ HasError(outcome.response, -32601)
     /\ Mentions(outcome.response.error.message, ToStr(ToolNameOf(request)))
     /\ outcome.response.error.message[1] = "Unknown tool: "
     /\ "result" \notin DOMAIN outcome.response

C1_Witness ==
  /\ dispatched /\ IsToolsCall(request) /\ HasParams(request)
  /\ IsStr(ToolNameOf(request), "nope")
  /\ ~outcome.thrown
  /\ HasError(outcome.response, -32601)

\* C2: a tools/call that names a registered tool but omits a property listed in
\* that tool's inputSchema.required is answered with error -32602 and no result.
C2_MissingRequiredInvalidParams ==
  (dispatched /\ IsToolsCall(request) /\ HasParams(request)
     /\ Registered(ToolNameOf(request))
     /\ \E k \in RequiredOf(ToolNameOf(request)) :
          Get(ToolArgsOf(request), k).t = "undefined")
  => /\ ~outcome.thrown
     /\ HasError(outcome.response, -32602)
     /\ "result" \notin DOMAIN outcome.response

\* ---- vocabulary of the POST endpoint
IsPost(c) == req[c] = Line("POST", "/")
Answered(c) == phase[c] = "done" /\ IsPost(c)
Decodes(c) == JSONparse(body[c]).ok
Decoded(c) == JSONparse(body[c]).value
Faults(r) == handleMCPRequest(tools, r).thrown

\* the id member of the body written on connection c, undefined when left out
ReplyId(c) == IF "id" \in DOMAIN reply[c] THEN reply[c].id ELSE Undefined

ExactlyOne(resp) == ("result" \in DOMAIN resp) # ("error" \in DOMAIN resp)

\* C3: a fault raised while a tools/call is executed reaches the caller as error
\* -32603, correlated to the request id, and as no other error code.
C3_FaultIsInternalError ==
  \A c \in Conns :
    (Answered(c) /\ Decodes(c) /\ IsToolsCall(Decoded(c)) /\ Faults(Decoded(c)))
    => /\ HasError(reply[c], -32603)
       /\ ReplyId(c) = Get(Decoded(c), "id")

\* C4: every JSON-RPC response the server writes, from any branch of the
\* dispatcher or as the parse-error response, has exactly one of result and error.
C4_ExactlyOneOfResultError ==
  \A c \in Conns : Answered(c) => ExactlyOne(reply[c])

C4_Witness ==
  /\ \E c \in Conns :
       Answered(c) /\ status[c] = 200 /\ "error" \in DOMAIN reply[c]
  /\ \E c \in Conns :
       Answered(c) /\ status[c] = 200 /\ "result" \in DOMAIN reply[c]

\* C5: every response handleMCPRequest returns carries the id of the request it
\* answers, whichever branch produced it and whether it is a result or an error.
C5_ResponseCarriesRequestId ==
  \A c \in Conns :
    (Answered(c) /\ Decodes(c) /\ ~Faults(Decoded(c)))
    => /\ status[c] = 200
       /\ ReplyId(c) = Get(Decoded(c), "id")

C5_Witness ==
  \E c, d \in Conns :
    /\ Answered(c) /\ Answered(d) /\ status[c] = 200 /\ status[d] = 200
    /\ ReplyId(c) = JNum("1") /\ ReplyId(d) = JNum("2")
    /\ "error" \in DOMAIN reply[c] /\ "result" \in DOMAIN reply[d]

\* C6: for every method string handleMCPRequest returns a complete response, and
\* for every one other than initialize, tools/list and tools/call that response
\* is error -32601 with a message naming the method.
C6_TotalOverMethods ==
  (dispatched /\ ~Nullish(request) /\ Get(request, "method").t = "string")
  => /\ ~outcome.thrown
     /\ { "jsonrpc", "id" } \subseteq DOMAIN outcome.response
     /\ ExactlyOne(outcome.response)
     /\ Get(request, "method").v \notin { "initialize", "tools/list", "tools/call" }
          => /\ HasError(outcome.response, -32601)
             /\ Mentions(outcome.response.error.message, Get(request, "method").v)

\* C7: a POST to / whose body is not valid JSON is answered with status 400 and a
\* body with error code -32700 and id null, and no fault goes unhandled.
C7_MalformedJsonParseError ==
  \A c \in Conns :
    (Answered(c) /\ ~Decodes(c))
    => /\ status[c] = 400
       /\ HasError(reply[c], -32700)
       /\ ReplyId(c) = JNull
       /\ ~unhandled

C7_Witness ==
  \E c \in Conns :
    Answered(c) /\ ~Decodes(c) /\ body[c] # << >> /\ status[c] = 400

\* C8: a POST to / whose body is valid JSON is answered with status 200 and the
\* dispatcher's response; status 400 only answers a body that is not JSON.
C8_ValidJsonAnswered200 ==
  \A c \in Conns :
    (Answered(c) /\ Decodes(c))
    => /\ status[c] = 200
       /\ ~Faults(Decoded(c))
       /\ reply[c] = JSONstringify(handleMCPRequest(tools, Decoded(c)).response)

\* C9 as stated: a body that is valid JSON but has no method member is answered
\* with a parse error, code -32700, like a body that is not JSON.
C9_MissingFieldParseError ==
  \A c \in Conns :
    (Answered(c) /\ Decodes(c)
       /\ (Nullish(Decoded(c)) \/ Get(Decoded(c), "method").t = "undefined"))
    => HasError(reply[c], -32700)

\* the decoded request with the jsonrpc member put in
WithVersion(r) == JObj(r.m @@ [jsonrpc |-> JStr("2.0")])

\* C9 as amended: a JSON body without a method member is answered by the
\* default branch, status 200 with error -32601 "Unknown method: undefined" and
\* the request's id; only the value null is answered like malformed JSON, 400
\* with -32700; a request without the jsonrpc member is answered as with it.
C9_MissingMethodUnknownMethod ==
  \A c \in Conns :
    (Answered(c) /\ Decodes(c))
    => /\ status[c] \in { 200, 400 }
       /\ Nullish(Decoded(c))
            => status[c] = 400 /\ reply[c] = ParseErrorBody
       /\ (~Nullish(Decoded(c)) /\ Get(Decoded(c), "method").t = "undefined")
            => /\ status[c] = 200
               /\ HasError(reply[c], -32601)
               /\ reply[c].error.message = << "Unknown method: ", "undefined" >>
               /\ ReplyId(c) = Get(Decoded(c), "id")
       /\ (Decoded(c).t = "object" /\ Get(Decoded(c), "jsonrpc").t = "undefined")
            => LET same == handleMCPRequest(tools, WithVersion(Decoded(c)))
               IN  IF same.thrown
                     THEN status[c] = 400 /\ reply[c] = ParseErrorBody
                     ELSE /\ status[c] = 200
                          /\ reply[c] = JSONstringify(same.response)

C9_Witness ==
  \E c \in Conns :
    /\ Answered(c) /\ Decodes(c) /\ Decoded(c).t = "object"
    /\ Get(Decoded(c), "method").t = "undefined"
    /\ Get(Decoded(c), "id") = JNum("1")
    /\ status[c] = 200

\* C10: whatever requests came before, a tools/list result lists each registered
\* tool's name once, in registration order, one descriptor per registered tool.
C10_ToolsListStable ==
  \A c \in Conns :
    (Answered(c) /\ Decodes(c) /\ ~Nullish(Decoded(c))
       /\ IsStr(Get(Decoded(c), "method"), "tools/list"))
    => /\ status[c] = 200
       /\ "result" \in DOMAIN reply[c]
       /\ LET listed == reply[c].result.tools
          IN  /\ Len(listed) = Len(tools)
              /\ Len(listed) = Len(Registry)
              /\ \A i \in DOMAIN listed : listed[i].name = Registry[i].name
              /\ \A i, j \in DOMAIN listed :
                   listed[i].name = listed[j].name => i = j
              /\ listed = tools

C10_Witness ==
  \E c, d \in Conns :
    /\ c # d
    /\ Answered(c) /\ Decodes(c) /\ ~Nullish(Decoded(c))
    /\ IsStr(Get(Decoded(c), "method"), "tools/list")
    /\ status[c] = 200
    /\ phase[d] = "sse" /\ Len(frames[d]) > Len(Handshake(tools))

\* ---- vocabulary of initialize
IsInitialize(r) == ~Nullish(r) /\ IsStr(Get(r, "method"), "initialize")

\* the per-connection state of every connection but c
Others(c) == [d \in Conns \ { c } |->
  << req[d], phase[d], body[d], inflight[d], status[d], reply[d], headers[d],
     frames[d], heartbeat[d], stream[d], isActive[d] >>]

\* C11: initialize is idempotent: whatever was handled before, an initialize
\* request is answered 200 with protocolVersion "2024-11-05", the tools
\* capability and serverInfo snowflake-mcp-server 1.0.0, and answering it
\* changes neither the registry nor any session or other connection.
C11_InitializeIdempotent ==
  [][\A c \in Conns :
       (phase[c] = "body" /\ phase'[c] = "done" /\ Decodes(c)
          /\ IsInitialize(Decoded(c)))
       => /\ status'[c] = 200
          /\ "result" \in DOMAIN reply'[c]
          /\ reply'[c].result.protocolVersion = "2024-11-05"
          /\ reply'[c].result.capabilities = [tools |-> EmptyObj]
          /\ reply'[c].result.serverInfo =
               [name |-> "snowflake-mcp-server", version |-> "1.0.0"]
          /\ tools' = tools
          /\ unhandled' = unhandled
          /\ frames' = frames /\ heartbeat' = heartbeat /\ stream' = stream
          /\ isActive' = isActive /\ variant' = variant
          /\ Others(c)' = Others(c)]_vars

\* two initialize requests with different ids, answered alike
C11_Witness ==
  \E c, d \in Conns :
    /\ c # d
    /\ Answered(c) /\ Decodes(c) /\ IsInitialize(Decoded(c))
    /\ Answered(d) /\ Decodes(d) /\ IsInitialize(Decoded(d))
    /\ ReplyId(c) # ReplyId(d)
    /\ status[c] = 200 /\ status[d] = 200
    /\ reply[c].result = reply[d].result

\* ---- vocabulary of the event stream
IsSession(c) == phase[c] = "sse"

\* a keep-alive frame, under any of the names the variants give it
IsHeartbeatFrame(f) ==
  \/ "type" \in DOMAIN f.data /\ f.data.type \in { "ping", "heartbeat" }
  \/ "method" \in DOMAIN f.data /\ f.data.method = "ping"

\* the frame carries a list of tool descriptors
HasCatalog(f) ==
  \/ "tools" \in DOMAIN f.data
  \/ "result" \in DOMAIN f.data /\ "tools" \in DOMAIN f.data.result

CatalogIn(f) ==
  IF "tools" \in DOMAIN f.data THEN f.data.tools ELSE f.data.result.tools

\* what tools/list answers in the running variant
Listed ==
  IF HasPostRoute(variant)
    THEN handleMCPRequest(tools,
           JObj([method |-> JStr("tools/list"), id |-> JNum("1")])).response.result.tools
    ELSE HybridTools

\* C12: on every SSE connection, in every variant, a frame with the full tool
\* catalog (the descriptors tools/list returns) is on the stream before the
\* first heartbeat frame, and no heartbeat frame precedes a handshake frame.
C12_CatalogBeforeHeartbeat ==
  \A c \in Conns :
    IsSession(c) =>
      /\ \E j \in DOMAIN frames[c] :
           HasCatalog(frames[c][j]) /\ CatalogIn(frames[c][j]) = Listed
      /\ \A i \in DOMAIN frames[c] :
           IsHeartbeatFrame(frames[c][i]) =>
             /\ \E j \in 1 .. (i - 1) :
                  /\ HasCatalog(frames[c][j])
                  /\ CatalogIn(frames[c][j]) = Listed
             /\ \A j \in DOMAIN frames[c] :
                  ~IsHeartbeatFrame(frames[c][j]) => j < i

\* a stream of a variant other than the working one got a heartbeat after its catalog
C12_Witness ==
  \E c \in Conns :
    /\ IsSession(c)
    /\ variant \in { "enhanced", "compliant", "hybrid" }
    /\ IsHeartbeatFrame(frames[c][Len(frames[c])])
    /\ HasCatalog(frames[c][1]) \/ HasCatalog(frames[c][3])

\* a frame that announces the connection or the server
IsConnectSignal(f) ==
  \/ f.event = "connect"
  \/ "type" \in DOMAIN f.data /\ f.data.type = "server_info"

\* a frame that tells the client the server is ready
IsReadySignal(f) ==
  \/ f.event = "ready"
  \/ "type" \in DOMAIN f.data /\ f.data.type = "ready"

\* C13: on every SSE connection the first three frames are, in this order, a
\* connect/init signal, a tools catalog equal to what tools/list returns, and a
\* ready signal, and none of the three is a heartbeat.
C13_ConnectCatalogReady ==
  \A c \in Conns :
    IsSession(c) =>
      /\ Len(frames[c]) >= 3
      /\ IsConnectSignal(frames[c][1])
      /\ HasCatalog(frames[c][2]) /\ CatalogIn(frames[c][2]) = Listed
      /\ IsReadySignal(frames[c][3])
      /\ \A i \in 1 .. 3 : ~IsHeartbeatFrame(frames[c][i])

\* the 'close' event has been delivered for the session on connection c
ClientGone(c) == IsSession(c) /\ stream[c] \in { "closed", "finished" }

\* C14: once the client side of an SSE connection has closed, its heartbeat
\* timer is cancelled, so it fires no more, and no further frame is written on
\* that stream for as long as the connection exists.
C14_NoFrameAfterClose ==
  [][\A c \in Conns :
       ClientGone(c) =>
         /\ ~heartbeat[c]
         /\ ~heartbeat'[c]
         /\ IsSession(c)' => frames'[c] = frames[c]]_vars

\* a stream that had a heartbeat was closed by its client
C14_Witness ==
  \E c \in Conns : ClientGone(c) /\ Beats(c) >= 1 /\ ~heartbeat[c]

\* the stream of the session on connection c can no longer be written
Unwritable(c) == IsSession(c) /\ stream[c] # "open"

\* C15: in every reachable state no SSE session has a running heartbeat timer,
\* or a liveness flag still set, while its stream is no longer writable: the
\* client's disconnect and a stream error both cancel the timer.
C15_NoTimerOnDeadStream ==
  \A c \in Conns : Unwritable(c) => ~heartbeat[c] /\ ~isActive[c]

\* a step that delivers the first, or the second, of 'error' and 'close'
FirstSignal(c) == stream[c] = "open" /\ stream'[c] \in { "errored", "closed" }
SecondSignal(c) == stream[c] \in { "errored", "closed" } /\ stream'[c] = "finished"

\* C16: heartbeat cancellation is wired to both signals and idempotent: the
\* first of error and close, whichever it is, cancels the timer and clears the
\* flag, and the second, in either order, raises no fault and leaves the
\* session as the first left it.
C16_CancelIdempotent ==
  [][\A c \in Conns :
       /\ FirstSignal(c) => ~heartbeat'[c] /\ ~isActive'[c]
       /\ SecondSignal(c) =>
            /\ ~heartbeat'[c] /\ ~isActive'[c]
            /\ heartbeat'[c] = heartbeat[c]
            /\ isActive'[c] = isActive[c]
            /\ frames'[c] = frames[c]
            /\ unhandled' = unhandled /\ ~unhandled']_vars

\* C17: over the lifetime of an SSE session, a disconnect or an error clears
\* the liveness flag and cancels the timer, a cancelled timer is never running
\* again (it is cancelled once), and nothing is written on the stream afterwards.
C17_CancelOnceNoWriteAfter ==
  [][\A c \in Conns :
       (IsSession(c) /\ IsSession(c)') =>
         /\ stream'[c] # stream[c] => ~heartbeat'[c] /\ ~isActive'[c]
         /\ ~heartbeat[c] => ~heartbeat'[c]
         /\ ~isActive[c] => ~isActive'[c]
         /\ Unwritable(c) => frames'[c] = frames[c]]_vars

\* the instant a heartbeat frame carries, where it carries one
CarriesInstant(f, ms) ==
  /\ "timestamp" \in DOMAIN f.data
  /\ IF variant = "compliant"
       THEN f.data.timestamp = ms
       ELSE f.data.timestamp = Iso(ms)

\* C18: while a session is alive, each interval of 30 that elapses writes one
\* heartbeat frame carrying the timestamp of that instant, and a heartbeat
\* frame is written only while the timer runs and the liveness flag is set.
C18_TimestampedHeartbeat ==
  [][\A c \in Conns :
       (IsSession(c) /\ IsSession(c)' /\ frames'[c] # frames[c]) =>
         /\ Len(frames'[c]) = Len(frames[c]) + 1
         /\ IsHeartbeatFrame(frames'[c][Len(frames'[c])])
         /\ CarriesInstant(frames'[c][Len(frames'[c])],
                           (Beats(c) + 1) * HeartbeatInterval)
         /\ heartbeat[c]
         /\ HasFlag(variant) => isActive[c]]_vars

\* ---- vocabulary of the server as a whole
\* The process ends when a fault escapes every handler (an unhandled rejection
\* of the async callbacks); until then the listener takes requests.
Listening == ~unhandled

\* what a completed exchange on connection c has written
Written(c) == phase[c] = "done" => status[c] \in { 200, 400, 404 } /\ reply[c] # NoBody

\* C19: no request and no connection terminates the server: after malformed
\* JSON, an unknown method, an unknown tool, a tools/call without params, and
\* SSE disconnects and errors, no fault has escaped the handlers, so the server
\* is still listening, and every exchange it completed carries an answer.
C19_ServerSurvives ==
  /\ Listening
  /\ \A c \in Conns : Written(c)

\* a tools/call without params was refused, an event stream went through an
\* error and its close, and the server goes on
C19_Witness ==
  \E c, d \in Conns :
    /\ Answered(c) /\ Decodes(c) /\ IsToolsCall(Decoded(c)) /\ Faults(Decoded(c))
    /\ status[c] = 400
    /\ IsSession(d) /\ stream[d] = "finished"
    /\ variant = "enhanced"
    /\ ~unhandled

\* C20: GET / is answered 200 with status "healthy", the service name, the
\* version, and tools_count equal to the number of tools tools/list returns,
\* and answering it changes neither the registry nor any session.
C20_HealthReportsToolCount ==
  [][\A c \in Conns :
       (phase[c] = "idle" /\ req'[c] = Line("GET", "/")) =>
         /\ status'[c] = 200
         /\ reply'[c].status = "healthy"
         /\ reply'[c].service = "Snowflake MCP Server"
         /\ reply'[c].version = "1.0.0"
         /\ "tools_count" \in DOMAIN reply'[c]
         /\ reply'[c].tools_count = Len(Listed)
         /\ tools' = tools /\ variant' = variant
         /\ frames' = frames /\ heartbeat' = heartbeat /\ stream' = stream
         /\ isActive' = isActive
         /\ Others(c)' = Others(c)]_vars

\* ---- vocabulary of the routes
Exchange(c) == phase[c] # "idle"

\* C21: an OPTIONS request to any path, / and /sse included, is answered at
\* once with status 200 and an empty body: no body is read and no dispatcher
\* runs, no event stream is opened and no heartbeat timer is created.
C21_PreflightShortCircuits ==
  \A c \in Conns :
    (Exchange(c) /\ req[c].method = "OPTIONS") =>
      /\ phase[c] = "done"
      /\ status[c] = 200
      /\ reply[c] = [text |-> ""]
      /\ body[c] = << >> /\ inflight[c] = << >>
      /\ frames[c] = << >>
      /\ stream[c] = "none"
      /\ ~heartbeat[c] /\ ~isActive[c]

\* OPTIONS /sse was answered while another connection holds an event stream
C21_Witness ==
  \E c, d \in Conns :
    /\ req[c] = Line("OPTIONS", "/sse") /\ phase[c] = "done" /\ status[c] = 200
    /\ req[d] = Line("GET", "/sse") /\ IsSession(d) /\ heartbeat[d]

\* the response on connection c has its status line and headers fixed
Responded(c) == status[c] # 0

CorsNames == { "allowOrigin", "allowMethods", "allowHeaders" }

\* C22: every HTTP response the server produces (health, JSON-RPC result,
\* JSON-RPC error, the 400 parse error, the event stream, OPTIONS, 404) carries
\* Access-Control-Allow-Origin: * together with an Access-Control-Allow-Methods
\* and an Access-Control-Allow-Headers header.
C22_EveryResponseHasCors ==
  \A c \in Conns :
    Responded(c) =>
      /\ CorsNames \subseteq DOMAIN headers[c]
      /\ headers[c].allowOrigin = "*"
      /\ headers[c].allowMethods \in { "GET, POST, OPTIONS", "*" }
      /\ headers[c].allowHeaders \in
           { "Content-Type, Authorization, Accept", "Content-Type", "*" }

\* a 400 parse error and an event stream, both with their headers
C22_Witness ==
  \E c, d \in Conns :
    /\ Answered(c) /\ status[c] = 400 /\ headers[c].allowOrigin = "*"
    /\ IsSession(d) /\ status[d] = 200 /\ headers[d].allowMethods = "*"

\* a JSON-RPC body or frame payload that carries the result of a tool
IsToolResult(x) ==
  /\ "result" \in DOMAIN x
  /\ "content" \in DOMAIN x.result

\* C23: no tools/call result is ever written to an SSE stream: however POST
\* requests interleave with open event streams, every frame of a stream is a
\* frame of the handshake or a heartbeat, and a tool result is found only in
\* the response to a POST.
C23_NoToolResultOnStream ==
  LET handshake == HandshakeOf(variant, tools)
  IN  \A c \in Conns :
        /\ \A i \in DOMAIN frames[c] :
             /\ ~IsToolResult(frames[c][i].data)
             /\ \/ i <= Len(handshake) /\ frames[c][i] = handshake[i]
                \/ IsHeartbeatFrame(frames[c][i])
        /\ (phase[c] = "done" /\ IsToolResult(reply[c])) => IsPost(c)

\* a tool result went out on a POST while an event stream got a heartbeat
C23_Witness ==
  \E c, d \in Conns :
    /\ Answered(c) /\ status[c] = 200 /\ IsToolResult(reply[c])
    /\ IsSession(d) /\ stream[d] = "open" /\ Beats(d) >= 1
    /\ variant = "enhanced"

\* ---- vocabulary of the tools
\* the first block of the content a tool answered with
FirstBlock(result) == result.content[1]

\* the request names the tool and gives it a string under the key
NamesTool(r, tool) == HasParams(r) /\ IsStr(ToolNameOf(r), tool)
StringArg(r, k) == Get(ToolArgsOf(r), k).t = "string"

\* C24: every tools/call of cortex_search with a string query is answered with
\* a result whose first content block has type text and a text that contains
\* the submitted query unchanged, by the HTTP dispatcher and by the stdio
\* handler alike.
C24_CortexSearchEchoesQuery ==
  (dispatched /\ IsToolsCall(request) /\ NamesTool(request, "cortex_search")
     /\ StringArg(request, "query"))
  => LET q == Get(ToolArgsOf(request), "query").v
     IN  /\ ~outcome.thrown
         /\ "result" \in DOMAIN outcome.response
         /\ FirstBlock(outcome.response.result).type = "text"
         /\ Mentions(FirstBlock(outcome.response.result).text, q)
         /\ FitsCallToolSchema(request) =>
              /\ ~handled.thrown
              /\ FirstBlock(handled.response).type = "text"
              /\ Mentions(FirstBlock(handled.response).text, q)

C24_Witness ==
  /\ dispatched /\ IsToolsCall(request) /\ NamesTool(request, "cortex_search")
  /\ IsStr(Get(ToolArgsOf(request), "query"), "wellness")
  /\ FitsCallToolSchema(request)
  /\ Mentions(FirstBlock(outcome.response.result).text, "wellness")
  /\ Mentions(FirstBlock(handled.response).text, "wellness")

\* the request has params with a name and without an arguments member
NoArguments(r) ==
  /\ HasParams(r)
  /\ ~Nullish(ToolNameOf(r))
  /\ Get(Get(r, "params"), "arguments").t = "undefined"

\* the same request with arguments: {} written out
WithEmptyArguments(r) ==
  LET p == r.m.params
  IN  JObj([r.m EXCEPT !["params"] =
        JObj([k \in DOMAIN p.m \cup { "arguments" } |->
               IF k = "arguments" THEN EmptyObj ELSE p.m[k]])])

\* the call ended in the TypeError of reading a member of undefined
ArgumentsFault(settled) == settled.thrown /\ settled.error = "TypeError"

\* C25: a tools/call whose params has a name but no arguments member is handled
\* exactly as if arguments were the empty object, and reading the arguments
\* raises no fault, in the HTTP dispatcher and in the stdio handler alike.
C25_MissingArgumentsAsEmpty ==
  (dispatched /\ IsToolsCall(request) /\ NoArguments(request))
  => /\ ~ArgumentsFault(outcome)
     /\ outcome = handleMCPRequest(tools, WithEmptyArguments(request))
     /\ FitsCallToolSchema(request) =>
          /\ ~ArgumentsFault(handled)
          /\ handled = CallToolHandler(WithEmptyArguments(request))

\* ---- vocabulary of the registry
DistinctNames(list) ==
  \A i, j \in DOMAIN list : list[i].name = list[j].name => i = j

\* the registries the constructors of the variants build
StartupRegistries == { Registry, CompliantRegistry, HybridTools }

\* C26: in every reachable state this.tools is the registry the constructor
\* built and its tool names are pairwise distinct: no request of any kind and
\* no SSE connection event adds, removes, reorders or alters a descriptor.
C26_RegistryImmutable ==
  /\ tools \in StartupRegistries
  /\ tools = Catalog(variant)
  /\ Len(tools) = IF variant = "hybrid" THEN 1 ELSE 3
  /\ DistinctNames(tools)

\* requests of every kind were served and streams opened and closed
C26_Witness ==
  \E c, d \in Conns :
    /\ Answered(c) /\ status[c] = 200 /\ IsToolResult(reply[c])
    /\ ClientGone(d) /\ Beats(d) >= 1
    /\ tools = Registry

\* ---- vocabulary of concurrent sessions
\* this step is connection c's close or error event
Ends(c) ==
  /\ stream[c] \in { "open", "closed", "errored" }
  /\ stream'[c] \in { "closed", "errored", "finished" }
  /\ stream'[c] # stream[c]

\* session d's timer exists and its callback writes
Beating(d) ==
  /\ stream[d] = "open"
  /\ heartbeat[d]
  /\ TimerWrites(variant, isActive[d])

\* C27: the timer and the liveness flag of an SSE session are private to its
\* connection: the close or error of one connection leaves the timer and flag
\* of every other connection as they were, so every other open session still
\* has its heartbeat running after the step.
C27_TimersPrivate ==
  [][ \A c \in Conns : Ends(c) =>
        \A d \in Conns \ { c } :
          /\ heartbeat'[d] = heartbeat[d]
          /\ isActive'[d] = isActive[d]
          /\ frames'[d] = frames[d]
          /\ Beating(d) => Beating(d)' ]_vars

\* one session is over, its timer cancelled, and another still beats
C27_Witness ==
  \E c, d \in Conns :
    /\ c # d
    /\ stream[c] \in { "closed", "errored", "finished" }
    /\ ~heartbeat[c]
    /\ Beating(d)
    /\ Beats(d) >= 1

\* ---- vocabulary of concurrent POST requests
\* part of the body of connection c has arrived and part is still to come
MidBody(c) == phase[c] = "body" /\ body[c] # << >> /\ inflight[c] # << >>

\* C28: POST requests in flight together are handled independently: while the
\* chunks of several bodies arrive interleaved each connection buffers exactly
\* the text its own client sent, and its answer is the one computed from that
\* complete body alone, carrying the id of that body.
C28_ConcurrentPostsIndependent ==
  \A c \in Conns :
    /\ phase[c] = "body" => body[c] \o inflight[c] \in PostTexts
    /\ Answered(c) =>
         /\ body[c] \in PostTexts
         /\ status[c] = PostEnd(tools, body[c]).status
         /\ reply[c] = PostEnd(tools, body[c]).body
         /\ (Decodes(c) /\ ~Faults(Decoded(c)))
              => ReplyId(c) = Get(Decoded(c), "id")

\* a request is answered under its own id while another body is half read
C28_Witness ==
  \E c, d \in Conns :
    /\ c # d
    /\ Answered(c) /\ status[c] = 200 /\ ReplyId(c) = JNum("1")
    /\ MidBody(d)
    /\ Decodes(c) /\ body[c] # body[d] \o inflight[d]

\* ---- vocabulary of the catalog
ListRequest ==
  Members([jsonrpc |-> JStr("2.0"), id |-> JNum("1"), method |-> JStr("tools/list")])

\* the tools member of the result tools/list returns in this state
Listing == handleMCPRequest(tools, ListRequest).response.result.tools

\* n is the name of a descriptor tools/list returns
InListing(n) == \E i \in DOMAIN Listing : Listing[i].name = n.v

\* a tools/call with a params object that names a tool by a string
NamesSomeTool(r) ==
  /\ IsToolsCall(r)
  /\ Get(r, "params").t = "object"
  /\ ToolNameOf(r).t = "string"

\* C30: in each variant with a POST route the catalog and the dispatch chain
\* agree: a tools/call naming a tool, whatever its arguments, returns a result
\* exactly when tools/list lists that name, and the unknown-tool error -32601
\* otherwise.
C30_CatalogMatchesDispatch ==
  (dispatched /\ NamesSomeTool(request))
  => /\ ~outcome.thrown
     /\ ExactlyOne(outcome.response)
     /\ InListing(ToolNameOf(request)) <=> "result" \in DOMAIN outcome.response
     /\ ~InListing(ToolNameOf(request)) <=> HasError(outcome.response, -32601)

\* the last tool of the catalog was called, in a variant other than the first
C30_Witness ==
  /\ dispatched /\ NamesSomeTool(request)
  /\ variant = "compliant"
  /\ ToolNameOf(request) = JStr(Listing[Len(Listing)].name)
  /\ "result" \in DOMAIN outcome.response
  /\ Get(Get(request, "params"), "arguments").t = "object"

\* ---- vocabulary of the request's course
\* the whole body of the POST on c has been delivered and its end signalled
BodyOver(c) == Answered(c) /\ inflight[c] = << >>

\* C31: a POST to / whose body is read to completion gets exactly one HTTP
\* response: while the body arrives nothing is written and the dispatcher has
\* not run; once the end of the body was signalled the response head has been
\* written exactly once, with status 200 or 400 and a body, and the dispatcher
\* has run once if the body decoded and not at all if it did not.
C31_OneResponsePerPost ==
  \A c \in Conns :
    /\ (IsPost(c) /\ phase[c] = "body")
         => /\ calls[c] = 0
            /\ writes[c] = 0
            /\ status[c] = 0 /\ reply[c] = NoBody
    /\ Answered(c)
         => /\ BodyOver(c)
            /\ writes[c] = 1
            /\ calls[c] = (IF Decodes(c) THEN 1 ELSE 0)
            /\ status[c] \in { 200, 400 }
            /\ reply[c] # NoBody

\* one request answered after a dispatcher fault, another after a parse
\* failure that never reached the dispatcher
C31_Witness ==
  \E c, d \in Conns :
    /\ Answered(c) /\ Decodes(c) /\ Faults(Decoded(c))
    /\ calls[c] = 1 /\ writes[c] = 1 /\ status[c] = 400
    /\ Answered(d) /\ ~Decodes(d) /\ body[d] # << >>
    /\ calls[d] = 0 /\ writes[d] = 1

\* ---- vocabulary of route selection
\* the request on c went to the path /sse with a method other than OPTIONS
AsksForStream(c) ==
  /\ Exchange(c)
  /\ req[c].url = "/sse"
  /\ req[c].method # "OPTIONS"

\* C32: the SSE route is selected by the path alone: a request to /sse with
\* any method but OPTIONS, GET or POST alike, is answered 200 with the
\* event-stream headers, gets the handshake as the first frames of its stream,
\* and has its heartbeat timer running for as long as the stream is open; no
\* body is read and the dispatcher is not invoked.
C32_SseRouteByPathAlone ==
  LET handshake == HandshakeOf(variant, tools)
  IN  \A c \in Conns :
        AsksForStream(c)
        => /\ IsSession(c)
           /\ stream[c] # "none"
           /\ status[c] = 200
           /\ headers[c] = SseHeadersOf(variant)
           /\ Len(frames[c]) >= Len(handshake)
           /\ SubSeq(frames[c], 1, Len(handshake)) = handshake
           /\ stream[c] = "open" => heartbeat[c]
           /\ body[c] = << >> /\ reply[c] = NoBody
           /\ calls[c] = 0 /\ writes[c] = 1

\* a stream opened by POST got a heartbeat beside one opened by GET
C32_Witness ==
  \E c, d \in Conns :
    /\ req[c] = Line("POST", "/sse") /\ AsksForStream(c)
    /\ stream[c] = "open" /\ heartbeat[c] /\ Beats(c) >= 1
    /\ req[d] = Line("GET", "/sse") /\ stream[d] = "open"
    /\ frames[c] = Append(frames[d], frames[c][Len(frames[c])])

\* the request on c is no preflight and matches none of the routes: its path
\* is neither / nor /sse, or it is / with a method other than GET and POST
Unrouted(c) ==
  /\ Exchange(c)
  /\ req[c].method # "OPTIONS"
  /\ \/ req[c].url \notin { "/", "/sse" }
     \/ req[c].url = "/" /\ req[c].method \notin { "GET", "POST" }

\* C33: a request that matches no route is answered with status 404 and the
\* Not Found body, written once: the dispatcher is not invoked, no body is
\* read, no event stream is opened and no timer is started.
C33_UnroutedIsNotFound ==
  \A c \in Conns :
    Unrouted(c)
    => /\ phase[c] = "done"
       /\ status[c] = 404
       /\ reply[c] = NotFoundBody
       /\ writes[c] = 1
       /\ calls[c] = 0
       /\ body[c] = << >> /\ inflight[c] = << >>
       /\ stream[c] = "none" /\ frames[c] = << >>
       /\ ~heartbeat[c] /\ ~isActive[c]

====
